---- MODULE Spec2Model ----
(***************************************************************************)
(* A model of tuura/pml: pml.py (graph loading, get_apl, disable_nodes,    *)
(* enable_nodes, get_impact, get_impact_list, the impact dispatcher of     *)
(* main) and net.py (calculate_asp, _calculate_asp_single_src).            *)
(*                                                                         *)
(* Both files are Python 2 (print statements, no "from __future__ import   *)
(* division"): "/" between two ints is floor division, "/" with a float    *)
(* operand is true division.  A float is modelled as the exact rational it *)
(* is computed from, kept as a reduced fraction <<num, den>>.              *)
(*                                                                         *)
(* Node identifiers are Python strings, modelled as sequences of one-      *)
(* character strings so that "x in some_string" (a substring test) and     *)
(* "x in some_list" (a membership test) can be told apart.                 *)
(***************************************************************************)
EXTENDS Integers, Sequences, FiniteSets, TLC

\* Bounds of the model.
MaxNodes == 3
MaxTrials == 2
MaxWorkers == 3
MaxDispatchTrials == 4

VARIABLES
    file,             \* the graph the .graphml file describes (input, never written)
    args,             \* the parsed command line
    heap,             \* the graph dict objects: "loaded" (load_graphml), "copy" (deepcopy)
    graph,            \* the object the running function's variable graph refers to
    pc,               \* control position
    error,            \* the exception that ended the run, "" if none
    output,           \* what the run printed / returned: <<>> or <<value>>
    ni,               \* get_apl: position of the for loop in graph["nodes"]
    visited,          \* get_apl / _calculate_asp_single_src: visited
    to_visit,         \* get_apl: to_visit
    depth,            \* get_apl / _calculate_asp_single_src: depth
    node_plsum,       \* get_apl: node_plsum
    total_pl_sum,     \* get_apl: total_pl_sum
    gen_started,      \* get_impact_list: whether the generator gen has run to its first yield
    inds,             \* get_psuedo_random_nodes: inds (0-based indices)
    disabled,         \* get_impact_w: disabled, the sample of the running trial
    impacts,          \* get_impact_list: the list the comprehension of line 235 is building
    impact_n,         \* get_impact: n
    current,          \* _calculate_asp_single_src: current
    sum_,             \* _calculate_asp_single_src: sum_
    single_src_asps,  \* calculate_asp: single_src_asps, as far as built
    trials_per_task,  \* main: trials_per_task
    workers,          \* main: the pool's worker tasks, one record per task index
    task_results,     \* main: task_results, as far as the pool has collected it
    arrivals          \* the pool: the task indices in the order their results came in

vars == <<file, args, heap, graph, pc, error, output, ni, visited, to_visit, depth,
          node_plsum, total_pl_sum, gen_started, inds, disabled, impacts, impact_n, current,
          sum_, single_src_asps, trials_per_task, workers, task_results, arrivals>>

-----------------------------------------------------------------------------
\* Python values

Range(s) == {s[i] : i \in 1..Len(s)}

\* str.__contains__: x occurs in s as a contiguous substring
IsSubstring(x, s) ==
    \E i \in 0..(Len(s) - Len(x)) : SubSeq(s, i + 1, i + Len(x)) = x

\* "x in c" for a str or a list c
Contains(x, c) ==
    IF c.kind = "str" THEN IsSubstring(x, c.val)
    ELSE \E i \in 1..Len(c.val) : c.val[i] = x

PyList(l) == [kind |-> "list", val |-> l]
PyStr(s) == [kind |-> "str", val |-> s]

\* sep.join(l)
RECURSIVE join(_, _)
join(sep, l) ==
    IF l = <<>> THEN <<>>
    ELSE IF Len(l) = 1 THEN l[1]
    ELSE l[1] \o sep \o join(sep, Tail(l))

RECURSIVE GCD(_, _)
GCD(a, b) == IF b = 0 THEN a ELSE GCD(b, a % b)

\* x / float(y) and float(x) / y for ints x >= 0, y > 0
truediv(x, y) == <<x \div GCD(x, y), y \div GCD(x, y)>>

RECURSIVE SumSeq(_)
SumSeq(s) == IF s = <<>> THEN 0 ELSE Head(s) + SumSeq(Tail(s))

\* sum(lists, []): the lists concatenated in order
RECURSIVE Flatten(_)
Flatten(ls) == IF ls = <<>> THEN <<>> ELSE Head(ls) \o Flatten(Tail(ls))

-----------------------------------------------------------------------------
\* Graphs: what load_graphml builds

NodeIds == << <<"1">>, <<"1", "0">>, <<"0">>, <<"0", "1">> >>

RECURSIVE PickIds(_)
PickIds(I) ==
    IF I = {} THEN <<>>
    ELSE LET i == CHOOSE j \in I : \A k \in I : j <= k
         IN <<NodeIds[i]>> \o PickIds(I \ {i})

\* the node lists: distinct identifiers, at most MaxNodes of them
NodeLists ==
    {PickIds(I) : I \in {J \in SUBSET (1..Len(NodeIds)) : Cardinality(J) <= MaxNodes}}

\* edges as lines 44-49 build them: one set per node, each edge added both ways
EdgesOf(ns, P) == [n \in Range(ns) |-> {k \in Range(ns) : {n, k} \in P}]

Pairs(ns) == {{a, b} : a \in Range(ns), b \in Range(ns)}

\* every graph a file can describe, an edge from a node to itself included
LoopGraphs ==
    UNION {{[nodes |-> ns, edges |-> EdgesOf(ns, P)] : P \in SUBSET Pairs(ns)} :
           ns \in NodeLists}

NoSelfLoops(g) == \A n \in Range(g.nodes) : n \notin g.edges[n]

\* the graphs without an edge from a node to itself
Graphs == {g \in LoopGraphs : NoSelfLoops(g)}

NullGraph == [nodes |-> <<>>, edges |-> <<>>]

\* what net.py's Graph(graphml) holds in nodes and edges: the same lists and sets
NetGraphs == Graphs

-----------------------------------------------------------------------------
\* pml.py: disable_nodes, enable_nodes

\* deepcopy(graph0): a new dict object, equal to the old one
deepcopy_alias(h, ref) == [ref |-> ref, heap |-> h]
deepcopy(h, ref) == [ref |-> "copy", heap |-> [h EXCEPT !["copy"] = h[ref]]]

\* lines 89-92: new_edges
new_edges_unfiltered(nodes, edges, dis) == [n \in Range(nodes) |-> edges[n]]
new_edges(nodes, edges, dis) ==
    [n \in Range(nodes) |-> {k \in edges[n] : ~Contains(k, dis)}]

\* lines 84-94; dis is whatever the caller passed: a list or a string
disable_nodes(h, graph0, dis) ==
    LET c  == deepcopy(h, graph0)
        g  == c.ref
        h1 == [c.heap EXCEPT ![g].nodes = SelectSeq(@, LAMBDA n : ~Contains(n, dis))]
        h2 == [h1 EXCEPT ![g].edges = new_edges(h1[g].nodes, h1[g].edges, dis)]
    IN  [ref |-> g, heap |-> h2]

\* lines 97-99: the disabled names are joined into ONE string before the call
enable_nodes(h, g, enabled) ==
    LET dis == SelectSeq(h[g].nodes, LAMBDA n : ~Contains(n, PyList(enabled)))
    IN  disable_nodes(h, g, PyStr(join(<<" ">>, dis)))

-----------------------------------------------------------------------------
\* pml.py: get_apl

\* lines 71-78: one pass of the while loop.  The two in-place updates (|=) act on
\* visited and new_to_visit, sets made on lines 66 and 73; to_visit, which starts
\* as the graph's own edge set (line 67), is only read and rebound (line 76).
while_body_unweighted(edges, st) ==
    LET v == st.visited \cup st.to_visit
    IN  [visited    |-> v,
         to_visit   |-> (UNION {edges[m] : m \in st.to_visit}) \ v,
         depth      |-> st.depth + 1,
         node_plsum |-> st.node_plsum + Cardinality(st.to_visit)]
while_body(edges, st) ==
    LET v == st.visited \cup st.to_visit
    IN  [visited    |-> v,
         to_visit   |-> (UNION {edges[m] : m \in st.to_visit}) \ v,
         depth      |-> st.depth + 1,
         node_plsum |-> st.node_plsum + st.depth * Cardinality(st.to_visit)]

\* lines 66-69: the loop state at the start of the search from n
search_from(g, n) ==
    [visited |-> {n}, to_visit |-> g.edges[n], depth |-> 1, node_plsum |-> 0]

RECURSIVE run_while(_, _)
run_while(edges, st) ==
    IF st.to_visit = {} THEN st.node_plsum ELSE run_while(edges, while_body(edges, st))

\* lines 57-81 as a function of the graph
get_apl(g) ==
    SumSeq([i \in 1..Len(g.nodes) |-> run_while(g.edges, search_from(g, g.nodes[i]))])

-----------------------------------------------------------------------------
\* The state every run starts from

AplVars  == <<ni, visited, to_visit, depth, node_plsum, total_pl_sum>>
GenVars  == <<gen_started, inds, disabled, impacts, impact_n>>
AspVars  == <<current, sum_, single_src_asps>>
PoolVars == <<trials_per_task, workers, task_results, arrivals>>

\* every list of identifiers a <node_list> argument can split() into (no repeats)
AllNodeLists == {PickIds(I) : I \in SUBSET (1..Len(NodeIds))}

Args(cmd, node_list, m, trials, method, nworkers) ==
    [cmd |-> cmd, node_list |-> node_list, m |-> m, trials |-> trials,
     method |-> method, nworkers |-> nworkers]

\* nothing has run yet: the locals of every function are unset
Fresh ==
    /\ heap = [loaded |-> file, copy |-> NullGraph]
    /\ graph = "loaded"
    /\ error = ""
    /\ output = <<>>
    /\ ni = 0 /\ visited = {} /\ to_visit = {} /\ depth = 0
    /\ node_plsum = 0 /\ total_pl_sum = 0
    /\ gen_started = FALSE /\ inds = <<>> /\ disabled = <<>> /\ impacts = <<>>
    /\ impact_n = 0
    /\ current = {} /\ sum_ = 0 /\ single_src_asps = <<>>
    /\ trials_per_task = <<>> /\ workers = <<>> /\ task_results = <<>> /\ arrivals = <<>>

\* the locals of get_apl go out of scope when it returns
AplLocalsGone ==
    /\ ni' = 0 /\ visited' = {} /\ to_visit' = {} /\ depth' = 0
    /\ node_plsum' = 0 /\ total_pl_sum' = 0

Raise(exc) ==
    /\ pc' = "error"
    /\ error' = exc

-----------------------------------------------------------------------------
\* pml.py get_apl, one action per step of its loops

\* line 60, on the call: g is the object passed as graph
EnterGetApl(g) ==
    /\ graph' = g
    /\ pc' = "apl_for"
    /\ ni' = 1
    /\ total_pl_sum' = 0
    /\ visited' = {} /\ to_visit' = {} /\ depth' = 0 /\ node_plsum' = 0

\* lines 64-69: the for loop takes the next node n
AplFor ==
    /\ pc = "apl_for"
    /\ ni <= Len(heap[graph].nodes)
    /\ LET st == search_from(heap[graph], heap[graph].nodes[ni])
       IN  /\ visited' = st.visited
           /\ to_visit' = st.to_visit
           /\ depth' = st.depth
           /\ node_plsum' = st.node_plsum
    /\ pc' = "apl_while"
    /\ UNCHANGED <<file, args, heap, graph, error, output, ni, total_pl_sum,
                   GenVars, AspVars, PoolVars>>

\* lines 70-78: one pass of the while loop
AplWhile ==
    /\ pc = "apl_while"
    /\ to_visit # {}
    /\ LET st == while_body(heap[graph].edges,
                            [visited |-> visited, to_visit |-> to_visit,
                             depth |-> depth, node_plsum |-> node_plsum])
       IN  /\ visited' = st.visited
           /\ to_visit' = st.to_visit
           /\ depth' = st.depth
           /\ node_plsum' = st.node_plsum
    /\ UNCHANGED <<file, args, heap, graph, pc, error, output, ni, total_pl_sum,
                   GenVars, AspVars, PoolVars>>

\* lines 79-80: the while loop ends, the node's sum is added
AplEndWhile ==
    /\ pc = "apl_while"
    /\ to_visit = {}
    /\ total_pl_sum' = total_pl_sum + node_plsum
    /\ ni' = ni + 1
    /\ pc' = "apl_for"
    /\ UNCHANGED <<file, args, heap, graph, error, output, visited, to_visit, depth,
                   node_plsum, GenVars, AspVars, PoolVars>>

\* line 81 is reached: the for loop is exhausted
AplExhausted ==
    /\ pc = "apl_for"
    /\ ni > Len(heap[graph].nodes)

-----------------------------------------------------------------------------
\* pml.py main, the apl commands (lines 135-146)

\* line 146 with neither enable nor disable
MainApl ==
    /\ pc = "main"
    /\ args.cmd = "apl"
    /\ EnterGetApl(graph)
    /\ UNCHANGED <<file, args, heap, error, output, GenVars, AspVars, PoolVars>>

\* lines 139-141: enabled is a local of main that is only assigned on line 143
MainDisable ==
    /\ pc = "main"
    /\ args.cmd = "disable"
    /\ Raise("UnboundLocalError")
    /\ UNCHANGED <<file, args, heap, graph, output, AplVars, GenVars, AspVars, PoolVars>>

\* lines 142-146
MainEnable ==
    /\ pc = "main"
    /\ args.cmd = "enable"
    /\ LET r == enable_nodes(heap, graph, args.node_list)
       IN  /\ heap' = r.heap
           /\ EnterGetApl(r.ref)
    /\ UNCHANGED <<file, args, error, output, GenVars, AspVars, PoolVars>>

\* line 146: get_apl returns and main prints the value
MainPrint ==
    /\ AplExhausted
    /\ args.cmd \in {"apl", "enable"}
    /\ output' = <<total_pl_sum>>
    /\ pc' = "done"
    /\ AplLocalsGone
    /\ UNCHANGED <<file, args, heap, graph, error, GenVars, AspVars, PoolVars>>

InitApl ==
    /\ file \in LoopGraphs
    /\ args \in {Args("apl", <<>>, 0, 0, "random", 1)}
          \cup {Args(c, l, 0, 0, "random", 1) :
                  c \in {"enable", "disable"}, l \in AllNodeLists}
    /\ pc = "main"
    /\ Fresh

NextApl ==
    \/ MainApl
    \/ MainDisable
    \/ MainEnable
    \/ AplFor
    \/ AplWhile
    \/ AplEndWhile
    \/ MainPrint

SpecApl == InitApl /\ [][NextApl]_vars

-----------------------------------------------------------------------------
\* pml.py get_impact_list and get_impact: one worker's run (lines 191-235)

\* random.sample(population, k): k distinct elements in any order
sample(population, k) ==
    {s \in [1..k -> Range(population)] : \A i, j \in 1..k : s[i] = s[j] => i = j}

\* range(n)
range(k) == [i \in 1..k |-> i - 1]

\* the values randrange(1, n) can return
shift_range_from_zero(k) == 0..(k - 1)
shift_range(k) == 1..(k - 1)

\* line 221
shifted(ix, shift, k) == [i \in 1..Len(ix) |-> (ix[i] + shift) % k]

\* line 222: indices are 0-based
nodes_at(g, ix) == [i \in 1..Len(ix) |-> g.nodes[ix[i] + 1]]

\* line 196: the divisor
impact_denominator_square(k, m) == (k - m) * (k - m)
impact_denominator(k, m) == (k - m) * (k - m - 1)

\* line 209 runs once, on the graph as loaded
list_n == Len(file.nodes)

MoreTrials ==
    /\ pc = "trial"
    /\ args.cmd = "task"
    /\ Len(impacts) < args.trials

\* line 214: next(gen) of get_random_nodes
NextRandom ==
    /\ MoreTrials
    /\ args.method = "random"
    /\ args.m <= Len(heap[graph].nodes)
    /\ \E s \in sample(heap[graph].nodes, args.m) : disabled' = s
    /\ gen_started' = TRUE
    /\ pc' = "sampled"
    /\ UNCHANGED <<file, args, heap, graph, error, output, AplVars, inds, impacts,
                   impact_n, AspVars, PoolVars>>

\* lines 218-222: the first next(gen) of get_psuedo_random_nodes
NextPsuedoFirst ==
    /\ MoreTrials
    /\ args.method = "psuedo"
    /\ ~gen_started
    /\ args.m <= list_n
    /\ \E first \in sample(range(list_n), args.m) : \E shift \in shift_range(list_n) :
          /\ inds' = shifted(first, shift, list_n)
          /\ disabled' = nodes_at(heap[graph], inds')
    /\ gen_started' = TRUE
    /\ pc' = "sampled"
    /\ UNCHANGED <<file, args, heap, graph, error, output, AplVars, impacts, impact_n,
                   AspVars, PoolVars>>

\* lines 220-222: a later next(gen) of get_psuedo_random_nodes
NextPsuedo ==
    /\ MoreTrials
    /\ args.method = "psuedo"
    /\ gen_started
    /\ \E shift \in shift_range(list_n) :
          /\ inds' = shifted(inds, shift, list_n)
          /\ disabled' = nodes_at(heap[graph], inds')
    /\ pc' = "sampled"
    /\ UNCHANGED <<file, args, heap, graph, error, output, AplVars, gen_started,
                   impacts, impact_n, AspVars, PoolVars>>

\* sample() raises ValueError when m exceeds the population (lines 214, 218);
\* randrange(1, n) raises ValueError when n <= 1 (line 220)
SampleValueError ==
    /\ MoreTrials
    /\ \/ args.method = "random" /\ args.m > Len(heap[graph].nodes)
       \/ args.method = "psuedo" /\ ~gen_started /\ (args.m > list_n \/ list_n <= 1)
    /\ Raise("ValueError")
    /\ UNCHANGED <<file, args, heap, graph, output, AplVars, GenVars, AspVars, PoolVars>>

\* lines 193-196 up to the call of get_apl
GetImpact ==
    /\ pc = "sampled"
    /\ impact_n' = Len(heap[graph].nodes)
    /\ LET r == disable_nodes(heap, graph, PyList(disabled))
       IN  /\ heap' = r.heap
           /\ EnterGetApl(r.ref)
    /\ UNCHANGED <<file, args, error, output, gen_started, inds, disabled, impacts,
                   AspVars, PoolVars>>

\* line 196: get_apl returned and the divisor is not zero; back in the comprehension
ImpactReturn ==
    /\ AplExhausted
    /\ args.cmd = "task"
    /\ impact_denominator(impact_n, Len(disabled)) # 0
    /\ impacts' = Append(impacts,
                         truediv(total_pl_sum, impact_denominator(impact_n, Len(disabled))))
    /\ pc' = "trial"
    /\ graph' = "loaded"
    /\ heap' = IF graph = "copy" THEN [heap EXCEPT !["copy"] = NullGraph] ELSE heap
    /\ impact_n' = 0
    /\ AplLocalsGone
    /\ UNCHANGED <<file, args, error, output, gen_started, inds, disabled, AspVars, PoolVars>>

\* line 196: float division by zero
ImpactZeroDivision ==
    /\ AplExhausted
    /\ args.cmd = "task"
    /\ impact_denominator(impact_n, Len(disabled)) = 0
    /\ Raise("ZeroDivisionError")
    /\ UNCHANGED <<file, args, heap, graph, output, AplVars, GenVars, AspVars, PoolVars>>

\* line 235: the comprehension is complete
ImpactListReturn ==
    /\ pc = "trial"
    /\ args.cmd = "task"
    /\ Len(impacts) = args.trials
    /\ output' = <<impacts>>
    /\ pc' = "done"
    /\ UNCHANGED <<file, args, heap, graph, error, AplVars, GenVars, AspVars, PoolVars>>

InitImpact ==
    /\ file \in Graphs
    /\ args \in {Args("task", <<>>, m, t, method, 1) :
                   m \in 0..MaxNodes, t \in 0..MaxTrials, method \in {"random", "psuedo"}}
    /\ pc = "trial"
    /\ Fresh

NextImpact ==
    \/ NextRandom
    \/ NextPsuedoFirst
    \/ NextPsuedo
    \/ SampleValueError
    \/ GetImpact
    \/ AplFor
    \/ AplWhile
    \/ AplEndWhile
    \/ ImpactReturn
    \/ ImpactZeroDivision
    \/ ImpactListReturn

SpecImpact == InitImpact /\ [][NextImpact]_vars

-----------------------------------------------------------------------------
\* net.py calculate_asp and _calculate_asp_single_src (lines 203-249)

\* "/" between two ints in Python 2
floordiv(a, b) == a \div b

\* lines 229-241: one pass of the while loop
asp_while_body(edges, st) ==
    LET v == st.visited \cup st.current
        destinations == (UNION {edges[src] : src \in st.current}) \ v
    IN  [visited |-> v,
         current |-> destinations,
         depth   |-> st.depth + 1,
         sum_    |-> st.sum_ + Cardinality(destinations) * st.depth]

\* line 245: the condition asserted
asp_assert_skipped(v, nnodes) == TRUE
asp_assert(v, nnodes) == Cardinality(v) = nnodes

AspLocalsGone ==
    /\ current' = {} /\ visited' = {} /\ sum_' = 0 /\ depth' = 0

\* lines 210-212, 221-225: the comprehension calls _calculate_asp_single_src for the next src
AspSrc ==
    /\ pc = "asp_for"
    /\ Len(single_src_asps) < Len(heap[graph].nodes)
    /\ current' = {heap[graph].nodes[Len(single_src_asps) + 1]}
    /\ visited' = {}
    /\ sum_' = 0
    /\ depth' = 1
    /\ pc' = "asp_while"
    /\ UNCHANGED <<file, args, heap, graph, error, output, ni, to_visit, node_plsum,
                   total_pl_sum, GenVars, single_src_asps, PoolVars>>

\* lines 227-241
AspWhile ==
    /\ pc = "asp_while"
    /\ current # {}
    /\ LET st == asp_while_body(heap[graph].edges,
                                [visited |-> visited, current |-> current,
                                 depth |-> depth, sum_ |-> sum_])
       IN  /\ visited' = st.visited
           /\ current' = st.current
           /\ depth' = st.depth
           /\ sum_' = st.sum_
    /\ UNCHANGED <<file, args, heap, graph, pc, error, output, ni, to_visit, node_plsum,
                   total_pl_sum, GenVars, single_src_asps, PoolVars>>

\* line 245: the assertion fails
AspAssertionError ==
    /\ pc = "asp_while"
    /\ current = {}
    /\ ~asp_assert(visited, Len(heap[graph].nodes))
    /\ Raise("AssertionError: Graph is disconnected")
    /\ UNCHANGED <<file, args, heap, graph, output, AplVars, GenVars, AspVars, PoolVars>>

\* lines 247-249: sum_ / npaths, both ints
AspSingleReturn ==
    /\ pc = "asp_while"
    /\ current = {}
    /\ asp_assert(visited, Len(heap[graph].nodes))
    /\ Cardinality(visited) - 1 # 0
    /\ single_src_asps' = Append(single_src_asps, floordiv(sum_, Cardinality(visited) - 1))
    /\ pc' = "asp_for"
    /\ AspLocalsGone
    /\ UNCHANGED <<file, args, heap, graph, error, output, ni, to_visit, node_plsum,
                   total_pl_sum, GenVars, PoolVars>>

\* line 249 with npaths = 0
AspSingleZeroDivision ==
    /\ pc = "asp_while"
    /\ current = {}
    /\ asp_assert(visited, Len(heap[graph].nodes))
    /\ Cardinality(visited) - 1 = 0
    /\ Raise("ZeroDivisionError")
    /\ UNCHANGED <<file, args, heap, graph, output, AplVars, GenVars, AspVars, PoolVars>>

\* lines 215 and 204: mean(single_src_asps), printed on line 81
AspMean ==
    /\ pc = "asp_for"
    /\ Len(single_src_asps) = Len(heap[graph].nodes)
    /\ Len(single_src_asps) # 0
    /\ output' = <<truediv(SumSeq(single_src_asps), Len(single_src_asps))>>
    /\ pc' = "done"
    /\ UNCHANGED <<file, args, heap, graph, error, AplVars, GenVars, AspVars, PoolVars>>

\* line 204 with an empty list
AspMeanZeroDivision ==
    /\ pc = "asp_for"
    /\ Len(single_src_asps) = Len(heap[graph].nodes)
    /\ Len(single_src_asps) = 0
    /\ Raise("ZeroDivisionError")
    /\ UNCHANGED <<file, args, heap, graph, output, AplVars, GenVars, AspVars, PoolVars>>

InitAsp ==
    /\ file \in NetGraphs
    /\ args = Args("asp", <<>>, 0, 0, "random", 1)
    /\ pc = "asp_for"
    /\ Fresh

NextAsp ==
    \/ AspSrc
    \/ AspWhile
    \/ AspAssertionError
    \/ AspSingleReturn
    \/ AspSingleZeroDivision
    \/ AspMean
    \/ AspMeanZeroDivision

SpecAsp == InitAsp /\ [][NextAsp]_vars

-----------------------------------------------------------------------------
\* pml.py main, the impact command (lines 148-178; net.py lines 91-121 are the same)

\* line 161
trials_batch2_even(trials, batch1, nworkers) == batch1
trials_batch2(trials, batch1, nworkers) == trials - batch1 * (nworkers - 1)

\* lines 160-163
split_trials(trials, nworkers) ==
    LET trials_batch1 == floordiv(trials, nworkers)
    IN  [i \in 1..nworkers |->
           IF i < nworkers THEN trials_batch1
           ELSE trials_batch2(trials, trials_batch1, nworkers)]

\* pool.map (line 175): the result of task i goes to place i of the list, whichever
\* task finishes first; order holds the tasks that delivered before this one
pool_store_by_arrival(results, i, order, value) ==
    [results EXCEPT ![Len(order) + 1] = value]
pool_store(results, i, order, value) == [results EXCEPT ![i] = value]

\* lines 191-196 as a function of the graph and the sample
get_impact(g, dis) ==
    LET r == disable_nodes([loaded |-> g, copy |-> NullGraph], "loaded", PyList(dis))
        d == impact_denominator(Len(g.nodes), Len(dis))
    IN  IF d = 0 THEN [raised |-> TRUE, value |-> <<0, 1>>]
        ELSE [raised |-> FALSE, value |-> truediv(get_apl(r.heap[r.ref]), d)]

\* lines 152-175: the tasks are handed to the pool
MainImpact ==
    /\ pc = "main"
    /\ args.cmd = "impact"
    /\ trials_per_task' = split_trials(args.trials, args.nworkers)
    /\ workers' = [w \in 1..args.nworkers |->
                     [pc |-> "running", trials |-> trials_per_task'[w], impacts |-> <<>>,
                      gen_started |-> FALSE, inds |-> <<>>]]
    /\ task_results' = [w \in 1..args.nworkers |-> <<>>]
    /\ arrivals' = <<>>
    /\ pc' = "pool_map"
    /\ UNCHANGED <<file, args, heap, graph, error, output, AplVars, GenVars, AspVars>>

WorkerHasTrial(w) ==
    /\ pc = "pool_map"
    /\ w \in 1..args.nworkers
    /\ workers[w].pc = "running"
    /\ Len(workers[w].impacts) < workers[w].trials

\* the outcome of get_impact_w on the sample dis, in worker w
AfterTrial(w, dis, started, ix) ==
    LET r == get_impact(file, dis)
    IN  IF r.raised THEN [workers EXCEPT ![w].pc = "raised"]
        ELSE [workers EXCEPT ![w].impacts = Append(@, r.value),
                             ![w].gen_started = started,
                             ![w].inds = ix]

\* one trial of a worker using get_random_nodes (lines 211-214, 231-235)
WorkerRandomTrial ==
    /\ args.method = "random"
    /\ \E w \in 1..args.nworkers :
          /\ WorkerHasTrial(w)
          /\ IF args.m > Len(file.nodes)
             THEN workers' = [workers EXCEPT ![w].pc = "raised"]
             ELSE \E s \in sample(file.nodes, args.m) :
                      workers' = AfterTrial(w, s, TRUE, <<>>)
    /\ UNCHANGED <<file, args, heap, graph, pc, error, output, AplVars, GenVars, AspVars,
                   trials_per_task, task_results, arrivals>>

\* one trial of a worker using get_psuedo_random_nodes (lines 216-222, 231-235)
WorkerPsuedoTrial ==
    /\ args.method = "psuedo"
    /\ \E w \in 1..args.nworkers :
          /\ WorkerHasTrial(w)
          /\ IF args.m > list_n \/ list_n <= 1
             THEN workers' = [workers EXCEPT ![w].pc = "raised"]
             ELSE \E first \in (IF workers[w].gen_started THEN {workers[w].inds}
                                ELSE sample(range(list_n), args.m)) :
                  \E shift \in shift_range(list_n) :
                      LET ix == shifted(first, shift, list_n)
                      IN  workers' = AfterTrial(w, nodes_at(file, ix), TRUE, ix)
    /\ UNCHANGED <<file, args, heap, graph, pc, error, output, AplVars, GenVars, AspVars,
                   trials_per_task, task_results, arrivals>>

\* line 235: a worker's get_impact_list returns and the pool takes the list
WorkerReturn ==
    /\ pc = "pool_map"
    /\ \E w \in 1..args.nworkers :
          /\ workers[w].pc = "running"
          /\ Len(workers[w].impacts) = workers[w].trials
          /\ workers' = [workers EXCEPT ![w].pc = "returned"]
          /\ task_results' = pool_store(task_results, w, arrivals, workers[w].impacts)
          /\ arrivals' = Append(arrivals, w)
    /\ UNCHANGED <<file, args, heap, graph, pc, error, output, AplVars, GenVars, AspVars,
                   trials_per_task>>

\* lines 175-178: every task has delivered, pool.map returns, the flat list is printed
PoolMapReturn ==
    /\ pc = "pool_map"
    /\ \A w \in 1..args.nworkers : workers[w].pc = "returned"
    /\ output' = <<Flatten(task_results)>>
    /\ pc' = "done"
    /\ UNCHANGED <<file, args, heap, graph, error, AplVars, GenVars, AspVars, PoolVars>>

\* line 175: pool.map raises the exception of a task that raised
PoolMapRaise ==
    /\ pc = "pool_map"
    /\ \E w \in 1..args.nworkers : workers[w].pc = "raised"
    /\ Raise("exception of a task")
    /\ UNCHANGED <<file, args, heap, graph, output, AplVars, GenVars, AspVars, PoolVars>>

\* the graphs of the dispatcher's runs: the ones on the first three identifiers
DispatchGraphs == {g \in Graphs : g.nodes = SubSeq(NodeIds, 1, 3)}

InitDispatch ==
    /\ file \in DispatchGraphs
    /\ args \in {Args("impact", <<>>, m, t, method, w) :
                   m \in 0..(Len(file.nodes) + 1), t \in 0..MaxDispatchTrials,
                   method \in {"random", "psuedo"}, w \in 1..MaxWorkers}
    /\ pc = "main"
    /\ Fresh

NextDispatch ==
    \/ MainImpact
    \/ WorkerRandomTrial
    \/ WorkerPsuedoTrial
    \/ WorkerReturn
    \/ PoolMapReturn
    \/ PoolMapRaise

SpecDispatch == InitDispatch /\ [][NextDispatch]_vars

-----------------------------------------------------------------------------
\* Hop distances, defined by walks and not by the search

Symmetric(g) ==
    \A a \in Range(g.nodes) : \A b \in Range(g.nodes) :
        (b \in g.edges[a]) <=> (a \in g.edges[b])

\* the nodes a walk of exactly k edges from u can end in
RECURSIVE WalkEnds(_, _, _)
WalkEnds(g, u, k) ==
    IF k = 0 THEN {u} ELSE UNION {g.edges[x] : x \in WalkEnds(g, u, k - 1)}

\* the nodes whose shortest walk from u has exactly d edges
AtDist(g, u, d) ==
    {v \in Range(g.nodes) :
        /\ v \in WalkEnds(g, u, d)
        /\ \A j \in 0..(d - 1) : v \notin WalkEnds(g, u, j)}

\* the sum of dist(u, v) over the v reachable from u with 1 <= dist(u, v) < d
DistSumBelow(g, u, d) ==
    SumSeq([k \in 1..(d - 1) |-> k * Cardinality(AtDist(g, u, k))])

\* the sum of dist(u, v) over all ordered pairs of distinct nodes, v reachable from u
TotalDist(g) ==
    SumSeq([i \in 1..Len(g.nodes) |-> DistSumBelow(g, g.nodes[i], Len(g.nodes))])

\* the induced subgraph of g on the identifiers in S
Induced(g, S) ==
    LET kept == SelectSeq(g.nodes, LAMBDA n : n \in S)
    IN  [nodes |-> kept,
         edges |-> [n \in Range(kept) |-> g.edges[n] \cap Range(kept)]]

-----------------------------------------------------------------------------
\* C4: for every graph and every set enabled, enable_nodes(graph, enabled) is the
\* induced subgraph on enabled: its nodes are the graph's nodes that are members of
\* enabled, in the original order, and each edge set is the original one restricted
\* to the surviving nodes, whatever the identifier strings are.
C4_EnableIsInduced ==
    (args.cmd = "enable" /\ pc # "main")
        => heap[graph] = Induced(file, Range(args.node_list))

\* C5: for a symmetric graph without self-loops, connected or not, every frontier of
\* the search in get_apl at depth d is exactly the set of nodes at distance d from
\* the source, and get_apl returns the sum of the distances over all ordered pairs
\* of distinct nodes with the second reachable from the first.
C5_AplIsDistanceSum ==
    LET g == heap[graph]
    IN  /\ (pc = "apl_while" /\ Symmetric(g) /\ NoSelfLoops(g))
            => /\ to_visit = AtDist(g, g.nodes[ni], depth)
               /\ node_plsum = DistSumBelow(g, g.nodes[ni], depth)
        /\ (pc = "done" /\ args.cmd \in {"apl", "enable"}
               /\ Symmetric(g) /\ NoSelfLoops(g))
            => output = <<TotalDist(g)>>

\* the path graph of three nodes was traversed and gave 8
C5_Witness ==
    LET g == heap[graph]
    IN  /\ pc = "done"
        /\ args.cmd = "apl"
        /\ Len(g.nodes) = 3
        /\ g.edges[g.nodes[1]] = {g.nodes[2]}
        /\ g.edges[g.nodes[2]] = {g.nodes[1], g.nodes[3]}
        /\ g.edges[g.nodes[3]] = {g.nodes[2]}
        /\ output = <<8>>

-----------------------------------------------------------------------------
\* One worker's trials (SpecImpact)

\* position of x in the list l
IndexOf(l, x) == CHOOSE i \in 1..Len(l) : l[i] = x

\* a trial is inside get_impact, past disable_nodes
InTrial == args.cmd = "task" /\ pc \in {"apl_for", "apl_while"}

\* the last trial has returned its value
TrialReturned == args.cmd = "task" /\ pc = "trial" /\ impacts # <<>>

\* C3 as stated: get_impact completes for every disabled set of size m < n, and its
\* division fails only when m >= n.
C3_FailsOnlyWhenAllRemoved ==
    (args.cmd = "task" /\ error = "ZeroDivisionError")
        => Len(disabled) >= Len(file.nodes)

\* C3, amended: for a disabled set of size m < n - 1 get_impact completes and
\* returns get_apl(reduced graph) / ((n-m)*(n-m-1)); its division fails exactly when
\* that divisor is zero, which is when m = n - 1 or m = n.
C3_ImpactValueAndFailure ==
    LET n == Len(file.nodes)
        m == Len(disabled)
        reduced == Induced(file, Range(file.nodes) \ Range(disabled))
    IN  /\ (args.cmd = "task" /\ error = "ZeroDivisionError") => m \in {n - 1, n}
        /\ (args.cmd = "task" /\ pc = "apl_for" /\ ni > Len(heap[graph].nodes))
              => (m < n - 1 <=> impact_denominator(impact_n, m) # 0)
        /\ TrialReturned
              => /\ m < n - 1
                 /\ impacts[Len(impacts)] = truediv(get_apl(reduced), (n - m) * (n - m - 1))

\* a trial that removed one node of three returned a value, and another run ended
\* in the division
C3_Witness ==
    /\ TrialReturned
    /\ Len(file.nodes) = 3
    /\ Len(disabled) = 1
    /\ impacts[Len(impacts)] = <<1, 1>>

\* C6: the graph disable_nodes returns for a removed node set has the kept nodes in
\* their original relative order, edge sets restricted to the kept nodes, exactly the
\* kept nodes as keys, and symmetric edges; removing no node gives the original.
C6_DisableIsInduced ==
    InTrial =>
        LET g == heap[graph]
            removed == Range(disabled)
        IN  /\ Range(g.nodes) = Range(file.nodes) \ removed
            /\ Len(g.nodes) = Cardinality(Range(g.nodes))
            /\ \A i, j \in 1..Len(g.nodes) :
                  i < j => IndexOf(file.nodes, g.nodes[i]) < IndexOf(file.nodes, g.nodes[j])
            /\ DOMAIN g.edges = Range(g.nodes)
            /\ \A k \in Range(g.nodes) : g.edges[k] = file.edges[k] \cap Range(g.nodes)
            /\ Symmetric(g)
            /\ (removed = {} => g = file)

\* the middle node of a path of three was removed: two nodes stay, no edge does
C6_Witness ==
    /\ InTrial
    /\ Len(file.nodes) = 3
    /\ file.edges[file.nodes[2]] = {file.nodes[1], file.nodes[3]}
    /\ disabled = <<file.nodes[2]>>
    /\ heap[graph].nodes = <<file.nodes[1], file.nodes[3]>>
    /\ heap[graph].edges[file.nodes[1]] = {}

\* a sample has just been drawn by a generator that had yielded before
LaterPsuedoSample ==
    /\ args.method = "psuedo"
    /\ gen_started
    /\ pc = "trial"
    /\ pc' = "sampled"

\* a sample of the pseudo-random sampler is waiting to be used
PsuedoSampled == args.method = "psuedo" /\ pc = "sampled"

C10_LoadedGraphUnchanged ==
    args.cmd = "task" => heap["loaded"] = file

\* two trials ran to the end, the second one having removed a node
C10_Witness ==
    /\ args.cmd = "task"
    /\ pc = "done"
    /\ Len(impacts) = 2
    /\ disabled # <<>>

-----------------------------------------------------------------------------
\* Average shortest path (SpecAsp)

\* every node reaches every node
Connected(g) ==
    \A u \in Range(g.nodes) : \A v \in Range(g.nodes) :
        \E k \in 0..(Len(g.nodes) - 1) : v \in WalkEnds(g, u, k)

\* C2: for a connected graph calculate_asp returns the mean over all source nodes
\* of the exact quotient (sum of hop distances from the source) / (|nodes| - 1);
\* for the path a-b-c that is 4/3.  As fractions: the value returned equals
\* TotalDist / (n * (n - 1)).
C2_AspIsExactMean ==
    (args.cmd = "asp" /\ pc = "done")
        => output[1][1] * (Len(file.nodes) * (Len(file.nodes) - 1))
              = TotalDist(file) * output[1][2]

\* C9: on a graph in which some source cannot reach all other nodes calculate_asp
\* fails with "Graph is disconnected" and returns nothing; on a connected graph of
\* at least two nodes that failure is never raised.
C9_DisconnectedFails ==
    args.cmd = "asp" =>
        /\ pc = "done" => Connected(file)
        /\ ~Connected(file) => (output = <<>> /\ single_src_asps = <<>>)
        /\ (pc = "asp_while" /\ current = {} /\ ~Connected(file))
              => ~asp_assert(visited, Len(file.nodes))
        /\ error = "AssertionError: Graph is disconnected"
              => (~Connected(file) /\ output = <<>>)
        /\ (Connected(file) /\ Len(file.nodes) >= 2) => error = ""

\* a graph of two components ran into the assertion, and a connected one was averaged
C9_Witness ==
    /\ args.cmd = "asp"
    /\ error = "AssertionError: Graph is disconnected"
    /\ Len(file.nodes) = 3
    /\ file.edges[file.nodes[1]] = {file.nodes[2]}
    /\ file.edges[file.nodes[3]] = {}

-----------------------------------------------------------------------------
\* The impact dispatcher (SpecDispatch)

Dispatched == args.cmd = "impact" /\ pc # "main"

\* q is the floor of t / w
IsFloorOf(q, t, w) == q * w <= t /\ t < (q + 1) * w

\* the lists the workers returned, in task order
WorkerLists == [w \in 1..args.nworkers |-> workers[w].impacts]

\* C1: for trials >= 0 and W >= 1 workers the dispatcher gives floor(trials/W) trials
\* to each of the first W-1 workers and trials - (W-1)*floor(trials/W) to the last,
\* every worker returns as many impact values as it was given, and the flattened
\* list has exactly trials values (also when trials < W or W does not divide trials).
C1_SplitAndLength ==
    Dispatched =>
        /\ Len(trials_per_task) = args.nworkers
        /\ \A w \in 1..(args.nworkers - 1) :
              IsFloorOf(trials_per_task[w], args.trials, args.nworkers)
        /\ \E q \in 0..args.trials :
              /\ IsFloorOf(q, args.trials, args.nworkers)
              /\ trials_per_task[args.nworkers] = args.trials - (args.nworkers - 1) * q
        /\ \A w \in 1..args.nworkers :
              workers[w].pc = "returned"
                  => /\ Len(workers[w].impacts) = trials_per_task[w]
                     /\ Len(task_results[w]) = trials_per_task[w]
        /\ pc = "done" => Len(output[1]) = args.trials

\* four trials over three workers were printed: 1, 1 and 2 values
C1_Witness ==
    /\ Dispatched
    /\ pc = "done"
    /\ args.trials = 4
    /\ args.nworkers = 3
    /\ trials_per_task = <<1, 1, 2>>
    /\ Len(output[1]) = 4

\* C7: whatever order the W workers finish in, the dispatcher's list is worker 0's
\* list, then worker 1's, and so on in task order, and it is produced only after
\* all W workers have completed.
C7_OrderedAfterAll ==
    Dispatched =>
        /\ pc = "done" =>
              /\ \A w \in 1..args.nworkers : workers[w].pc = "returned"
              /\ output = <<Flatten(WorkerLists)>>
        /\ (\E w \in 1..args.nworkers : workers[w].pc # "returned") => output = <<>>

\* the second worker finished before the first, with a different list
C7_Witness ==
    /\ Dispatched
    /\ pc = "done"
    /\ args.nworkers = 2
    /\ arrivals = <<2, 1>>
    /\ workers[1].impacts # <<>>
    /\ workers[1].impacts # workers[2].impacts

====
